---------------------------- MODULE Spec2Model ----------------------------
(***************************************************************************)
(* Model of the Metadata-Analyzer Flask application (app.py): the value    *)
(* sanitizer, the GPS decoder, the report assembly of /analyze, and the    *)
(* temporary upload file shared by concurrent requests.                    *)
(*                                                                         *)
(* Python values are records with a "kind" field.  Text is a sequence of   *)
(* one-character strings, bytes a sequence of integers 0..255, a float an  *)
(* exact reduced fraction num/den (den > 0), a dict an insertion-ordered   *)
(* sequence of <<key, value>> pairs.  An operation that raises returns a   *)
(* record of kind "raise"; try/except is an explicit test for it.          *)
(***************************************************************************)
EXTENDS Integers, Sequences, FiniteSets, TLC

\* ------------------------------------------------------------------ bounds
\* Largest numerator / denominator of a duck-typed rational object.
MaxNum == 2
\* How many characters beyond the display limit a tag text may run.
MaxOver == 2
\* Nesting depth of the generated list / dict values.
MaxDepth == 2

\* ------------------------------------------------------- program constants
\* value_str[:200] and len(value_str) > 200
TruncLimit == 200

\* ---------------------------------------------------------- Python values
None == [kind |-> "none"]
PyBool(b) == [kind |-> "bool", bv |-> b]
PyInt(n) == [kind |-> "int", iv |-> n]
PyStrV(s) == [kind |-> "str", sv |-> s]
PyBytes(s) == [kind |-> "bytes", bs |-> s]
PyList(s) == [kind |-> "list", items |-> s]
PyTuple(s) == [kind |-> "tuple", items |-> s]
PyDict(s) == [kind |-> "dict", pairs |-> s]
Raise(e) == [kind |-> "raise", exc |-> e]
IsRaise(x) == x.kind = "raise"

Abs(n) == IF n < 0 THEN -n ELSE n

RECURSIVE Gcd(_, _)
Gcd(a, b) == IF b = 0 THEN a ELSE Gcd(b, a % b)

\* A float as the reduced fraction n/d, d # 0.
PyFloatV(n, d) ==
  LET g == Gcd(Abs(n), Abs(d))
      s == IF d < 0 THEN -1 ELSE 1
  IN  [kind |-> "float", num |-> (s * n) \div g, den |-> (s * d) \div g]

\* An object of a class the code does not know: what float(obj) gives (a
\* float, or a raise), its attributes numerator / denominator / num / den
\* (None when the attribute is missing) and what str(obj) gives.
PyObj(fl, numerator, denominator, num, den, str) ==
  [kind |-> "obj", fl |-> fl, numerator |-> numerator,
   denominator |-> denominator, num |-> num, den |-> den, str |-> str]

\* ------------------------------------------------------- float arithmetic
FAdd(a, b) == PyFloatV(a.num * b.den + b.num * a.den, a.den * b.den)
FNeg(a) == PyFloatV(-a.num, a.den)
\* a / b on floats: ZeroDivisionError when b == 0.0
FDiv(a, b) ==
  IF b.num = 0 THEN Raise("ZeroDivisionError")
  ELSE PyFloatV(a.num * b.den, a.den * b.num)
\* float.is_integer()
IsInteger(f) == f.den = 1
\* int(f), truncation toward zero
FToInt(f) ==
  PyInt(IF f.num >= 0 THEN f.num \div f.den ELSE -((-f.num) \div f.den))

\* ------------------------------------------------------------------- text
Digits == <<"0", "1", "2", "3", "4", "5", "6", "7", "8", "9">>
IsDigit(c) == \E i \in 1..10 : Digits[i] = c
DigitVal(c) == (CHOOSE i \in 1..10 : Digits[i] = c) - 1

RECURSIVE NatStr(_)
NatStr(n) ==
  IF n < 10 THEN <<Digits[n + 1]>>
  ELSE NatStr(n \div 10) \o <<Digits[(n % 10) + 1]>>

IntStr(n) == IF n < 0 THEN <<"-">> \o NatStr(-n) ELSE NatStr(n)

\* The fractional digits of r/d (0 <= r < d), at most k of them.
RECURSIVE FracDigits(_, _, _)
FracDigits(r, d, k) ==
  IF r = 0 \/ k = 0 THEN <<>>
  ELSE <<Digits[((r * 10) \div d) + 1]>> \o FracDigits((r * 10) % d, d, k - 1)

\* repr(float): "10.0", "0.5", "-20.25"; 16 fractional digits at most.
FloatStr(f) ==
  LET a == Abs(f.num)
      frac == FracDigits(a % f.den, f.den, 16)
  IN  (IF f.num < 0 THEN <<"-">> ELSE <<>>) \o NatStr(a \div f.den) \o <<".">>
        \o (IF frac = <<>> THEN <<"0">> ELSE frac)

RECURSIVE DigitsVal(_, _)
DigitsVal(s, acc) ==
  IF s = <<>> THEN acc ELSE DigitsVal(Tail(s), acc * 10 + DigitVal(Head(s)))

\* float(text): an optional sign and decimal digits; anything else raises.
StrToFloat(s) ==
  LET body == IF s # <<>> /\ Head(s) = "-" THEN Tail(s) ELSE s
  IN  IF body # <<>> /\ \A i \in 1..Len(body) : IsDigit(body[i])
      THEN PyFloatV((IF s # body THEN -1 ELSE 1) * DigitsVal(body, 0), 1)
      ELSE Raise("ValueError")

Lowers == <<"a", "b", "c", "d", "e", "f", "g", "h", "i", "j", "k", "l", "m",
            "n", "o", "p", "q", "r", "s", "t", "u", "v", "w", "x", "y", "z">>
Uppers == <<"A", "B", "C", "D", "E", "F", "G", "H", "I", "J", "K", "L", "M",
            "N", "O", "P", "Q", "R", "S", "T", "U", "V", "W", "X", "Y", "Z">>
\* str.upper() and str.lower(), one character
UpperChar(c) ==
  IF \E i \in 1..26 : Lowers[i] = c
  THEN Uppers[CHOOSE i \in 1..26 : Lowers[i] = c] ELSE c
LowerChar(c) ==
  IF \E i \in 1..26 : Uppers[i] = c
  THEN Lowers[CHOOSE i \in 1..26 : Uppers[i] = c] ELSE c
Upper(s) == [i \in 1..Len(s) |-> UpperChar(s[i])]
Lower(s) == [i \in 1..Len(s) |-> LowerChar(s[i])]
\* s.startswith(c) for a one-character c
StartsWith(s, c) == s # <<>> /\ s[1] = c

\* ------------------------------------------------------------------ bytes
\* chr(b) for the ASCII bytes the model uses.
Chr(b) ==
  CASE b = 48 -> "0" [] b = 49 -> "1" [] b = 69 -> "E" [] b = 78 -> "N"
    [] b = 83 -> "S" [] b = 87 -> "W" [] b = 115 -> "s" [] b = 119 -> "w"
    [] OTHER -> "?"

\* bytes.decode(errors="ignore"): UTF-8, undecodable bytes dropped.  The
\* bytes of the model are ASCII or 0xFF, which no UTF-8 sequence contains.
IsAscii(b) == b < 128
Decode(b) ==
  LET kept == SelectSeq(b, IsAscii)
  IN  [i \in 1..Len(kept) |-> Chr(kept[i])]

\* repr(bytes): b'S', b'\xffS'
RECURSIVE BytesBody(_)
BytesBody(b) ==
  IF b = <<>> THEN <<>>
  ELSE (IF IsAscii(Head(b)) THEN <<Chr(Head(b))>> ELSE <<"\\", "x", "f", "f">>)
         \o BytesBody(Tail(b))
BytesRepr(b) == <<"b", "'">> \o BytesBody(b) \o <<"'">>


\* -------------------------------------------------- Python built-ins
TxtNone == <<"N", "o", "n", "e">>
TxtTrue == <<"T", "r", "u", "e">>
TxtFalse == <<"F", "a", "l", "s", "e">>

\* repr(x): a text value, or the raise of an object's own __str__/__repr__.
RECURSIVE PyRepr(_)
\* ", ".join(repr(x) for x in items)
RECURSIVE ReprItems(_)
ReprItems(items) ==
  IF items = <<>> THEN PyStrV(<<>>)
  ELSE IF Len(items) = 1 THEN PyRepr(items[1])
  ELSE LET mid == Len(items) \div 2
           h == ReprItems(SubSeq(items, 1, mid))
           t == ReprItems(SubSeq(items, mid + 1, Len(items)))
       IN  IF IsRaise(h) THEN h
           ELSE IF IsRaise(t) THEN t
           ELSE PyStrV(h.sv \o <<",", " ">> \o t.sv)
\* ", ".join(repr(k) + ": " + repr(v) for k, v in pairs)
RECURSIVE ReprPairs(_)
ReprPairs(pairs) ==
  IF pairs = <<>> THEN PyStrV(<<>>)
  ELSE LET k == PyRepr(Head(pairs)[1])
           v == PyRepr(Head(pairs)[2])
           t == ReprPairs(Tail(pairs))
       IN  IF IsRaise(k) THEN k
           ELSE IF IsRaise(v) THEN v
           ELSE IF IsRaise(t) THEN t
           ELSE PyStrV(k.sv \o <<":", " ">> \o v.sv
                         \o (IF Tail(pairs) = <<>> THEN <<>> ELSE <<",", " ">>)
                         \o t.sv)
PyRepr(x) ==
  CASE x.kind = "none" -> PyStrV(TxtNone)
    [] x.kind = "bool" -> PyStrV(IF x.bv THEN TxtTrue ELSE TxtFalse)
    [] x.kind = "int" -> PyStrV(IntStr(x.iv))
    [] x.kind = "float" -> PyStrV(FloatStr(x))
    [] x.kind = "str" -> PyStrV(<<"'">> \o x.sv \o <<"'">>)
    [] x.kind = "bytes" -> PyStrV(BytesRepr(x.bs))
    [] x.kind = "list" ->
         LET b == ReprItems(x.items)
         IN  IF IsRaise(b) THEN b ELSE PyStrV(<<"[">> \o b.sv \o <<"]">>)
    [] x.kind = "tuple" ->
         LET b == ReprItems(x.items)
         IN  IF IsRaise(b) THEN b
             ELSE PyStrV(<<"(">> \o b.sv
                           \o (IF Len(x.items) = 1 THEN <<",">> ELSE <<>>) \o <<")">>)
    [] x.kind = "dict" ->
         LET b == ReprPairs(x.pairs)
         IN  IF IsRaise(b) THEN b ELSE PyStrV(<<"{">> \o b.sv \o <<"}">>)
    [] x.kind = "obj" -> x.str

\* str(x)
PyStr(x) == IF x.kind = "str" THEN x ELSE PyRepr(x)

\* float(x)
PyFloat(x) ==
  CASE x.kind = "bool" -> PyFloatV(IF x.bv THEN 1 ELSE 0, 1)
    [] x.kind = "int" -> PyFloatV(x.iv, 1)
    [] x.kind = "float" -> x
    [] x.kind = "str" -> StrToFloat(x.sv)
    [] x.kind = "bytes" ->
         IF \A i \in 1..Len(x.bs) : IsAscii(x.bs[i]) THEN StrToFloat(Decode(x.bs))
         ELSE Raise("ValueError")
    [] x.kind = "obj" -> x.fl
    [] OTHER -> Raise("TypeError")

\* bool(x)
Truthy(x) ==
  CASE x.kind = "none" -> FALSE
    [] x.kind = "bool" -> x.bv
    [] x.kind = "int" -> x.iv # 0
    [] x.kind = "float" -> x.num # 0
    [] x.kind = "str" -> x.sv # <<>>
    [] x.kind = "bytes" -> x.bs # <<>>
    [] x.kind \in {"list", "tuple"} -> x.items # <<>>
    [] x.kind = "dict" -> x.pairs # <<>>
    [] x.kind = "obj" -> IF IsRaise(x.fl) THEN TRUE ELSE x.fl.num # 0

\* a or b
PyOr(a, b) == IF Truthy(a) THEN a ELSE b

\* isinstance(x, (list, tuple))
IsSequence(x) == x.kind \in {"list", "tuple"}

\* d[k] = v on an insertion-ordered dict
DictPut(pairs, k, v) ==
  IF \E i \in 1..Len(pairs) : pairs[i][1] = k
  THEN [i \in 1..Len(pairs) |-> IF pairs[i][1] = k THEN <<k, v>> ELSE pairs[i]]
  ELSE Append(pairs, <<k, v>>)
\* k in d
DictHas(pairs, k) == \E i \in 1..Len(pairs) : pairs[i][1] = k
\* d.get(k)
DictGet(pairs, k) ==
  IF DictHas(pairs, k)
  THEN pairs[CHOOSE i \in 1..Len(pairs) : pairs[i][1] = k][2]
  ELSE None

\* ------------------------------------------------------ sanitize_for_json
\* The marker of a try block that ended in "pass".
Pass == [kind |-> "pass"]

\* CollapseOrPass without its except clause: the raise goes on.
CollapseOrPass_Uncaught(f) ==
  IF IsRaise(f) THEN f
  ELSE IF IsInteger(f) THEN FToInt(f) ELSE f

\* Lines 99-103: int(f) if f.is_integer() else f; a raise is "pass".
CollapseOrPass(f) ==
  IF IsRaise(f) THEN Pass
  ELSE IF IsInteger(f) THEN FToInt(f) ELSE f

\* try: f = float(obj) ... except: pass
FloatAttempt(obj) == CollapseOrPass(PyFloat(obj))

\* n / d on the results of two float() calls, any raise passed on
FloatQuotient(n, d) ==
  IF IsRaise(n) THEN n
  ELSE IF IsRaise(d) THEN d
  ELSE FDiv(n, d)

\* float(num) / float(den)
RationalQuotient(num, den) == FloatQuotient(PyFloat(num), PyFloat(den))

\* Lines 109-116: if num is not None and den is not None: ...
QuotientOrPass(num, den) ==
  IF num.kind # "none" /\ den.kind # "none"
  THEN CollapseOrPass(RationalQuotient(num, den))
  ELSE Pass

\* try: num = numerator or num; den = denominator or den; ... except: pass
RationalAttempt(obj) ==
  QuotientOrPass(PyOr(obj.numerator, obj.num), PyOr(obj.denominator, obj.den))

\* except Exception: return None
NoneIfRaise(s) == IF IsRaise(s) THEN None ELSE s

\* try: return str(obj) / except: return None
StrFallback(obj) == NoneIfRaise(PyStr(obj))

\* The first of the three attempts that returns.
FirstResult(f, r, s) ==
  IF f.kind # "pass" THEN f
  ELSE IF r.kind # "pass" THEN r ELSE s

\* Lines 95-124, for an object of no known type.
SanitizeObject(obj) ==
  FirstResult(FloatAttempt(obj), RationalAttempt(obj), StrFallback(obj))

\* Two results in sequence: the first raise, or the lists joined.
JoinLists(h, t) ==
  IF IsRaise(h) THEN h
  ELSE IF IsRaise(t) THEN t
  ELSE PyList(h.items \o t.items)
\* [x], or the raise of x
ListOf(x) == IF IsRaise(x) THEN x ELSE PyList(<<x>>)

RECURSIVE sanitize_for_json(_)
\* [sanitize_for_json(x) for x in obj]
RECURSIVE SanitizeItems(_)
SanitizeItems(items) ==
  IF items = <<>> THEN PyList(<<>>)
  ELSE IF Len(items) = 1 THEN ListOf(sanitize_for_json(items[1]))
  ELSE JoinLists(SanitizeItems(SubSeq(items, 1, Len(items) \div 2)),
                 SanitizeItems(SubSeq(items, (Len(items) \div 2) + 1, Len(items))))
\* {str(k): sanitize_for_json(v) for k, v in obj.items()}
RECURSIVE SanitizePairs(_, _)
\* One item of the comprehension, then the rest.
PutPair(k, v, rest, acc) ==
  IF IsRaise(k) THEN k
  ELSE IF IsRaise(v) THEN v
  ELSE SanitizePairs(rest, DictPut(acc, k, v))
SanitizePairs(pairs, acc) ==
  IF pairs = <<>> THEN PyDict(acc)
  ELSE PutPair(PyStr(Head(pairs)[1]), sanitize_for_json(Head(pairs)[2]),
               Tail(pairs), acc)
sanitize_for_json(obj) ==
  CASE obj.kind = "none" -> None
    [] obj.kind \in {"bool", "int", "float", "str"} -> obj
    [] obj.kind = "bytes" -> PyStrV(Decode(obj.bs))
    [] obj.kind = "dict" -> SanitizePairs(obj.pairs, <<>>)
    [] IsSequence(obj) -> SanitizeItems(obj.items)
    [] OTHER -> SanitizeObject(obj)

\* ------------------------------------------------------------ GPS helpers
T_GPSInfo == <<"G", "P", "S", "I", "n", "f", "o">>
T_GPSLatitude == <<"G", "P", "S", "L", "a", "t", "i", "t", "u", "d", "e">>
T_GPSLongitude == <<"G", "P", "S", "L", "o", "n", "g", "i", "t", "u", "d", "e">>
T_GPSLatitudeRef ==
  <<"G", "P", "S", "L", "a", "t", "i", "t", "u", "d", "e", "R", "e", "f">>
T_GPSLongitudeRef ==
  <<"G", "P", "S", "L", "o", "n", "g", "i", "t", "u", "d", "e", "R", "e", "f">>
T_GPSAltitude == <<"G", "P", "S", "A", "l", "t", "i", "t", "u", "d", "e">>
T_DateTime == <<"D", "a", "t", "e", "T", "i", "m", "e">>
T_DateTimeOriginal ==
  <<"D", "a", "t", "e", "T", "i", "m", "e", "O", "r", "i", "g", "i", "n", "a", "l">>
T_DateTimeDigitized ==
  <<"D", "a", "t", "e", "T", "i", "m", "e",
    "D", "i", "g", "i", "t", "i", "z", "e", "d">>
T_Model == <<"M", "o", "d", "e", "l">>
T_Make == <<"M", "a", "k", "e">>
T_OwnerName == <<"O", "w", "n", "e", "r", "N", "a", "m", "e">>
T_Software == <<"S", "o", "f", "t", "w", "a", "r", "e">>
T_ImageDescription ==
  <<"I", "m", "a", "g", "e", "D", "e", "s", "c", "r", "i", "p", "t", "i", "o", "n">>

\* PIL.ExifTags.GPSTAGS.get(key, key), the sub-tags the model uses
GPSTAGS_get(key) ==
  IF key.kind # "int" THEN key
  ELSE CASE key.iv = 1 -> PyStrV(T_GPSLatitudeRef)
         [] key.iv = 2 -> PyStrV(T_GPSLatitude)
         [] key.iv = 3 -> PyStrV(T_GPSLongitudeRef)
         [] key.iv = 4 -> PyStrV(T_GPSLongitude)
         [] key.iv = 6 -> PyStrV(T_GPSAltitude)
         [] OTHER -> key

\* PIL.ExifTags.TAGS.get(tag_id, str(tag_id)), the tags the model uses
TAGS_get(tag_id) ==
  CASE tag_id = 34853 -> PyStrV(T_GPSInfo)
    [] tag_id = 306 -> PyStrV(T_DateTime)
    [] tag_id = 36867 -> PyStrV(T_DateTimeOriginal)
    [] tag_id = 36868 -> PyStrV(T_DateTimeDigitized)
    [] tag_id = 272 -> PyStrV(T_Model)
    [] tag_id = 271 -> PyStrV(T_Make)
    [] tag_id = 305 -> PyStrV(T_Software)
    [] tag_id = 270 -> PyStrV(T_ImageDescription)
    [] OTHER -> PyStrV(IntStr(tag_id))

\* getattr(x, name, None)
GetAttr(x, name) == IF x.kind = "obj" THEN x[name] ELSE None

\* Lines 143-146: num / den, or the ValueError.
QuotientOrRaise(num, den) ==
  IF num.kind # "none" /\ den.kind # "none"
  THEN RationalQuotient(num, den)
  ELSE Raise("ValueError")

\* Lines 141-146: the numerator / denominator attributes of r.
AttrRational(r) ==
  QuotientOrRaise(PyOr(GetAttr(r, "numerator"), GetAttr(r, "num")),
                  PyOr(GetAttr(r, "denominator"), GetAttr(r, "den")))

\* Lines 137-146: what follows a float(r) that raised.
PairOrAttrRational(r) ==
  IF IsSequence(r) /\ Len(r.items) = 2
  THEN RationalQuotient(r.items[1], r.items[2])
  ELSE AttrRational(r)

\* try: return float(r) / except: pass
FloatOr(f, other) == IF ~IsRaise(f) THEN f ELSE other

\* A float, or a raise.
_to_float_rational(r) == FloatOr(PyFloat(r), PairOrAttrRational(r))

\* d + (m / 60.0) + (s / 3600.0); None when a conversion raised.
DegMinSec(d, m, s) ==
  IF IsRaise(d) \/ IsRaise(m) \/ IsRaise(s) THEN None
  ELSE FAdd(FAdd(d, FDiv(m, PyFloatV(60, 1))), FDiv(s, PyFloatV(3600, 1)))

\* A float, or None when anything raised.
_convert_to_degrees(value) ==
  IF IsSequence(value) /\ Len(value.items) = 3
  THEN DegMinSec(_to_float_rational(value.items[1]),
                 _to_float_rational(value.items[2]),
                 _to_float_rational(value.items[3]))
  ELSE NoneIfRaise(_to_float_rational(value))

\* for key, val in gps_info.items(): gps_data_raw[GPSTAGS.get(key, key)] = val
RECURSIVE GpsDataRaw(_, _)
GpsDataRaw(pairs, acc) ==
  IF pairs = <<>> THEN acc
  ELSE GpsDataRaw(Tail(pairs),
                  DictPut(acc, GPSTAGS_get(Head(pairs)[1]), Head(pairs)[2]))

\* Lines 184-193: a bytes reference decoded to text.
NormalizeRef(ref) == IF ref.kind = "bytes" THEN PyStrV(Decode(ref.bs)) ELSE ref

\* SignFromText without .upper(): a lower-case reference is not seen.
SignFromText_CaseSensitive(c, s, letter) ==
  IF IsRaise(s) THEN s
  ELSE IF StartsWith(s.sv, letter) THEN FNeg(c) ELSE c

\* str(ref).upper().startswith(letter): the coordinate negated or not, or
\* the raise of str(ref).
SignFromText(c, s, letter) ==
  IF IsRaise(s) THEN s
  ELSE IF StartsWith(Upper(s.sv), letter) THEN FNeg(c) ELSE c

\* Lines 197-198 and 202-203: if c is not None and ref and ...: c = -c
ApplyRef(c, ref, letter) ==
  IF c.kind # "none" /\ Truthy(ref) THEN SignFromText(c, PyStr(ref), letter)
  ELSE c

\* Lines 195-203: the coordinate under `tag` with the sign of `ref_tag`;
\* a float, None, or a raise.
Coordinate(gps_data_raw, tag, ref_tag, letter) ==
  IF DictHas(gps_data_raw, PyStrV(tag))
  THEN ApplyRef(_convert_to_degrees(DictGet(gps_data_raw, PyStrV(tag))),
                NormalizeRef(DictGet(gps_data_raw, PyStrV(ref_tag))), letter)
  ELSE None

\* {k: sanitize_for_json(v) for k, v in gps_data_raw.items()}
RECURSIVE SanitizeValues(_)
ConsValue(k, v, t) ==
  IF IsRaise(v) THEN v
  ELSE IF IsRaise(t) THEN t
  ELSE PyDict(<<<<k, v>>>> \o t.pairs)
SanitizeValues(pairs) ==
  IF pairs = <<>> THEN PyDict(<<>>)
  ELSE ConsValue(Head(pairs)[1], sanitize_for_json(Head(pairs)[2]),
                 SanitizeValues(Tail(pairs)))

\* Lines 208-212, or the first raise on the way.
GpsResult(lat, lon, gps_data_sanitized) ==
  IF IsRaise(lat) THEN lat
  ELSE IF IsRaise(lon) THEN lon
  ELSE IF IsRaise(gps_data_sanitized) THEN gps_data_sanitized
  ELSE [kind |-> "gps", raw |-> gps_data_sanitized,
        latitude |-> lat, longitude |-> lon]

\* Lines 178-212
GpsReport(gps_data_raw) ==
  GpsResult(Coordinate(gps_data_raw, T_GPSLatitude, T_GPSLatitudeRef, "S"),
            Coordinate(gps_data_raw, T_GPSLongitude, T_GPSLongitudeRef, "W"),
            SanitizeValues(gps_data_raw))

\* GpsOf with "if gps_info is None" in place of "if not gps_info".
GpsOf_OnlyNone(gps_info) ==
  IF gps_info.kind = "none" THEN None
  ELSE IF gps_info.kind # "dict" THEN Raise("AttributeError")
  ELSE GpsReport(GpsDataRaw(gps_info.pairs, <<>>))

\* Lines 170-176: a falsy GPSInfo is no GPS; .items() of a value that is
\* no mapping raises.
GpsOf(gps_info) ==
  IF ~Truthy(gps_info) THEN None
  ELSE IF gps_info.kind # "dict" THEN Raise("AttributeError")
  ELSE GpsReport(GpsDataRaw(gps_info.pairs, <<>>))

\* exif_data is the ordered sequence of <<tag name, raw value>> pairs.
\* The result is None, the report record, or a raise.
get_gps_info(exif_data) == GpsOf(DictGet(exif_data, PyStrV(T_GPSInfo)))

\* ------------------------------------------------------- report assembly
TruncSuffix ==
  <<".", ".", ".", " ", "(", "t", "r", "u", "n", "c", "a", "t", "e", "d", ")">>
Unserializable ==
  <<"<", "u", "n", "s", "e", "r", "i", "a", "l", "i", "z", "a", "b", "l", "e", ">">>

\* The tags marked as sensitive in the UI.
SENSITIVE_TAGS ==
  {T_GPSInfo, T_GPSLatitude, T_GPSLongitude, T_GPSLatitudeRef,
   T_GPSLongitudeRef, T_DateTime, T_DateTimeOriginal, T_DateTimeDigitized,
   T_Model, T_Make, T_OwnerName, T_Software}

\* for tag_id, value in exif_raw.items(): exif_data[TAGS.get(...)] = value
RECURSIVE ExifData(_, _)
ExifData(pairs, acc) ==
  IF pairs = <<>> THEN acc
  ELSE ExifData(Tail(pairs),
                DictPut(acc, TAGS_get(Head(pairs)[1].iv), Head(pairs)[2]))

\* img._getexif() of the image: None, a dict of tag id -> raw value, or a
\* raise.  The result is the ordered <<tag name, raw value>> pairs.
get_exif_data(img) ==
  IF IsRaise(img.exif) \/ ~Truthy(img.exif) THEN <<>>
  ELSE ExifData(img.exif.pairs, <<>>)

\* isinstance(x, (str, int, float, bool, type(None)))
IsSimple(x) == x.kind \in {"str", "int", "float", "bool", "none"}

\* Lines 293-297
DecodeBytes(value) ==
  IF value.kind = "bytes" THEN PyStrV(Decode(value.bs)) ELSE value

\* except Exception: display_value = str(display_value)
SanitizedOrStr(s, d) == IF IsRaise(s) THEN PyStr(d) ELSE s

\* SanitizeSequence that leaves the sequence as it is.
SanitizeSequence_Skipped(d) == d

\* Lines 300-304
SanitizeSequence(d) ==
  IF IsSequence(d) THEN SanitizedOrStr(sanitize_for_json(d), d) ELSE d

\* except Exception: display_value = "<unserializable>"
StrOrUnserializable(s) == IF IsRaise(s) THEN PyStrV(Unserializable) ELSE s

\* Lines 307-311
CastToString(d) ==
  IF IsRaise(d) THEN d
  ELSE IF ~IsSimple(d) THEN StrOrUnserializable(PyStr(d))
  ELSE d

\* Lines 292-311: the value shown for a raw tag value, or a raise.
DisplayValue(value) == CastToString(SanitizeSequence(DecodeBytes(value)))

\* Truncate with >= in place of >.
Truncate_OffByOne(value_str) ==
  IF Len(value_str) >= TruncLimit
  THEN SubSeq(value_str, 1, TruncLimit) \o TruncSuffix
  ELSE value_str

\* Lines 314-315
Truncate(value_str) ==
  IF Len(value_str) > TruncLimit
  THEN SubSeq(value_str, 1, TruncLimit) \o TruncSuffix
  ELSE value_str

\* Lines 313-330: value_str = str(display_value), cut, and the entry.
EntryOf(tag, display_value) ==
  IF IsRaise(display_value) THEN display_value
  ELSE [kind |-> "entry", tag |-> tag,
        value |-> Truncate(PyStr(display_value).sv),
        is_sensitive |-> tag.sv \in SENSITIVE_TAGS]

\* One pass of the loop body: the entry appended for (tag, value), or a raise.
ExifEntry(tag, value) == EntryOf(tag, DisplayValue(value))

\* The whole loop: the list of entries, or the first raise.
RECURSIVE ExifList(_)
ExifList(exif_data) ==
  IF exif_data = <<>> THEN PyList(<<>>)
  ELSE JoinLists(ListOf(ExifEntry(Head(exif_data)[1], Head(exif_data)[2])),
                 ExifList(Tail(exif_data)))

\* HasGps that forgets the longitude.
HasGps_LatitudeOnly(gps) ==
  gps.kind # "none" /\ gps.latitude.kind # "none"

\* Lines 333-335
HasGps(gps) ==
  gps.kind # "none" /\ gps.latitude.kind # "none" /\ gps.longitude.kind # "none"

PrivacyFlags(exif_data, gps) ==
  [has_gps |-> HasGps(gps),
   has_datetime |->
     \E i \in 1..Len(exif_data) :
       exif_data[i][1].sv \in {T_DateTime, T_DateTimeOriginal, T_DateTimeDigitized},
   has_camera_model |->
     \E i \in 1..Len(exif_data) : exif_data[i][1].sv \in {T_Model, T_Make}]

\* except Exception as e: ... 500
Failure(status, e) == [success |-> FALSE, status |-> status, error |-> e]

\* Lines 269-282
EmptyReport(basic_info) ==
  [success |-> TRUE, status |-> 200, basic_info |-> basic_info,
   exif |-> <<>>, gps |-> None,
   privacy_flags |-> [has_gps |-> FALSE, has_datetime |-> FALSE,
                      has_camera_model |-> FALSE],
   message |-> "No EXIF metadata found in this image."]

\* Lines 284-351
FullReport(basic_info, exif_data, gps, exif_list) ==
  IF IsRaise(gps) THEN Failure(500, gps.exc)
  ELSE IF IsRaise(exif_list) THEN Failure(500, exif_list.exc)
  ELSE [success |-> TRUE, status |-> 200, basic_info |-> basic_info,
        exif |-> exif_list.items, gps |-> gps,
        privacy_flags |-> PrivacyFlags(exif_data, gps),
        message |-> "Metadata analyzed successfully."]

\* Lines 268-349: the body of the "with" block, after get_basic_info.
Report(basic_info, exif_data, gps, exif_list) ==
  IF exif_data = <<>> THEN EmptyReport(basic_info)
  ELSE FullReport(basic_info, exif_data, gps, exif_list)

\* ------------------------------------------------------------- the upload
Ext_jpg == <<"j", "p", "g">>
Ext_jpeg == <<"j", "p", "e", "g">>
Ext_png == <<"p", "n", "g">>
Ext_tiff == <<"t", "i", "f", "f">>
Ext_webp == <<"w", "e", "b", "p">>
ALLOWED_EXTENSIONS == {Ext_jpg, Ext_jpeg, Ext_png, Ext_tiff, Ext_webp}
UPLOAD_FOLDER == <<"u", "p", "l", "o", "a", "d", "s">>

\* filename.rsplit(".", 1)[1] for a filename that holds a "."
LastExt(filename) ==
  LET i == CHOOSE k \in 1..Len(filename) :
             /\ filename[k] = "."
             /\ \A j \in (k + 1)..Len(filename) : filename[j] # "."
  IN  SubSeq(filename, i + 1, Len(filename))

allowed_file(filename) ==
  /\ \E i \in 1..Len(filename) : filename[i] = "."
  /\ Lower(LastExt(filename)) \in ALLOWED_EXTENSIONS

\* "_".join(s.split()): runs of blanks become one "_", none at the ends
RECURSIVE JoinWords(_, _, _)
JoinWords(s, acc, gap) ==
  IF s = <<>> THEN acc
  ELSE IF Head(s) = " " THEN JoinWords(Tail(s), acc, acc # <<>>)
  ELSE JoinWords(Tail(s),
                 acc \o (IF gap THEN <<"_">> ELSE <<>>) \o <<Head(s)>>, FALSE)

\* [A-Za-z0-9_.-]
IsSafeChar(c) ==
  \/ \E i \in 1..26 : Lowers[i] = c \/ Uppers[i] = c
  \/ IsDigit(c)
  \/ c \in {"_", ".", "-"}

\* s.strip("._")
RECURSIVE StripDots(_)
StripDots(s) ==
  IF s = <<>> THEN s
  ELSE IF Head(s) \in {".", "_"} THEN StripDots(Tail(s))
  ELSE IF s[Len(s)] \in {".", "_"} THEN StripDots(SubSeq(s, 1, Len(s) - 1))
  ELSE s

\* werkzeug.utils.secure_filename on ASCII names: path separators become
\* blanks, blanks join with "_", other characters go, "._" stripped.
secure_filename(filename) ==
  LET spaced == [i \in 1..Len(filename) |->
                   IF filename[i] = "/" THEN " " ELSE filename[i]]
      joined == JoinWords(spaced, <<>>, FALSE)
  IN  StripDots(SelectSeq(joined, IsSafeChar))

\* os.path.join(app.config["UPLOAD_FOLDER"], filename)
SavePath(filename) == UPLOAD_FOLDER \o <<"/">> \o secure_filename(filename)

\* os.path.basename(path)
RECURSIVE Basename(_)
Basename(path) ==
  IF \E i \in 1..Len(path) : path[i] = "/" THEN Basename(Tail(path)) ELSE path

\* ------------------------------------------------------------------ state
VARIABLES
  pc,         \* where each request handler stands
  req,        \* the upload each handler received
  save_path,  \* its save_path
  img,        \* the image it opened
  resp,       \* its JSON response
  fs          \* the upload folder: path -> file

vars == <<pc, req, save_path, img, resp, fs>>

\* The handler threads of the server.
NumRequests == 2
Requests == 1..NumRequests

\* An image file: whether PIL can open it, and what img._getexif() gives.
Image(decodable, exif) == [decodable |-> decodable, exif |-> exif]
NoImage == Image(FALSE, None)
\* The "image" part of a request: present or not, its filename, its bytes.
Upload(has_image, filename, content) ==
  [has_image |-> has_image, filename |-> filename, content |-> content]
NoUpload == Upload(FALSE, <<>>, NoImage)
\* A file of the upload folder, tagged with the request that wrote it.
File(by, image) == [by |-> by, image |-> image]
NoFile == File(0, NoImage)
NoResponse == [success |-> FALSE, status |-> 0, error |-> ""]

\* ------------------------------------------------------------ the inputs
Name_a_jpg == <<"a", ".", "j", "p", "g">>
Name_up_a_jpg == <<".", ".", "/", "a", ".", "j", "p", "g">>
Name_a_JPG == <<"a", ".", "J", "P", "G">>
Name_b_png == <<"b", ".", "p", "n", "g">>
Name_a_txt == <<"a", ".", "t", "x", "t">>
Name_ajpg == <<"a", "j", "p", "g">>
Filenames ==
  {Name_a_jpg, Name_up_a_jpg, Name_a_JPG, Name_b_png, Name_a_txt, Name_ajpg, <<>>}
Paths == {SavePath(f) : f \in Filenames}

\* PIL's IFDRational(n, d), d # 0: float() works, str() is that of the float.
Rational(n, d) ==
  PyObj(PyFloatV(n, d), PyInt(n), PyInt(d), None, None,
        PyStrV(FloatStr(PyFloatV(n, d))))
\* A rational-like object float() refuses, with numerator / denominator.
Duck(n, d) ==
  PyObj(Raise("TypeError"), PyInt(n), PyInt(d), None, None,
        PyStrV(IntStr(n) \o <<"/">> \o IntStr(d)))
\* The same with the attributes named num / den.
DuckAlt(n, d) ==
  PyObj(Raise("TypeError"), None, None, PyInt(n), PyInt(d),
        PyStrV(IntStr(n) \o <<":">> \o IntStr(d)))
\* An object with none of this, and one whose __str__ raises too.
Opaque == PyObj(Raise("TypeError"), None, None, None, None, PyStrV(<<"o">>))
BadStr == PyObj(Raise("TypeError"), None, None, None, None, Raise("RuntimeError"))

Ducks == {Duck(n, d) : n \in 0..MaxNum, d \in 0..MaxNum}
Atoms ==
  {None, PyBool(TRUE), PyBool(FALSE), PyInt(0), PyInt(7), PyInt(-3),
   PyFloatV(1, 2), PyFloatV(0, 1), PyStrV(<<>>), PyStrV(<<"N">>),
   PyStrV(<<"1", "0">>), PyBytes(<<>>), PyBytes(<<83>>), PyBytes(<<255, 83>>),
   Rational(1, 2), Rational(10, 1), Rational(0, 1), DuckAlt(1, 2),
   DuckAlt(0, 1), Opaque, BadStr}
    \cup Ducks

\* Keys of a raw mapping: every hashable kind.
Keys ==
  {PyInt(1), PyStrV(<<"1">>), PyBytes(<<83>>), None, PyFloatV(1, 2),
   PyTuple(<<PyInt(1), PyInt(2)>>), Duck(1, 2)}
NestSeeds ==
  {None, PyInt(1), PyBytes(<<255, 83>>), Duck(1, 2), Duck(0, 1), Duck(1, 0),
   BadStr}
RECURSIVE Nested(_)
Nested(depth) ==
  IF depth = 0 THEN NestSeeds
  ELSE LET inner == Nested(depth - 1)
       IN  inner
             \cup {PyList(<<x>>) : x \in inner}
             \cup {PyTuple(<<x, PyInt(1)>>) : x \in inner}
             \cup {PyDict(<<<<k, x>>>>) : k \in Keys, x \in inner}
\* A mapping whose keys collide once they are text.
Colliding == PyDict(<<<<PyInt(1), PyInt(7)>>, <<PyStrV(<<"1">>), BadStr>>>>)
Values == Atoms \cup Nested(MaxDepth) \cup {Colliding}

Tuple3(a, b, c) == PyTuple(<<a, b, c>>)
Absent == [kind |-> "absent"]
LatOpts ==
  {Absent, None, PyInt(10), PyList(<<PyInt(10)>>),
   PyTuple(<<PyInt(1), PyInt(2)>>),
   Tuple3(PyInt(10), PyInt(30), PyInt(0)),
   Tuple3(PyInt(0), PyInt(0), PyInt(0)),
   PyList(<<Rational(10, 1), Rational(61, 2), Rational(0, 1)>>),
   Tuple3(PyTuple(<<PyInt(21), PyInt(2)>>), PyList(<<PyInt(30), PyInt(1)>>),
          PyStrV(<<"1", "0">>)),
   Tuple3(Duck(1, 1), Duck(1, 2), DuckAlt(2, 1)),
   Tuple3(Duck(0, 1), Duck(1, 1), Duck(1, 1)),
   Tuple3(PyInt(10), PyTuple(<<PyInt(1), PyInt(0)>>), PyInt(0)),
   Tuple3(PyInt(10), PyStrV(<<"N">>), PyInt(0)),
   Tuple3(Duck(1, 0), PyInt(1), PyInt(1))}
LatRefOpts ==
  {Absent, PyStrV(<<"N">>), PyStrV(<<"S">>), PyStrV(<<"s">>), PyStrV(<<>>),
   PyStrV(<<"W">>), PyStrV(<<"S", "o", "u", "t", "h">>), PyBytes(<<83>>),
   PyBytes(<<255, 115>>), PyBytes(<<78>>), PyList(<<PyStrV(<<"S">>)>>)}
LonOpts ==
  {Absent, Tuple3(PyInt(20), PyInt(15), PyInt(0)),
   Tuple3(Rational(1, 1), Duck(2, 1), PyInt(0)), PyList(<<PyInt(20)>>)}
LonRefOpts ==
  {Absent, PyStrV(<<"W">>), PyStrV(<<"w">>), PyStrV(<<"S">>), PyStrV(<<"E">>),
   PyBytes(<<87>>)}

\* The entry <<key, v>> of a raw mapping, none when v is absent.
Entry(key, v) == IF v = Absent THEN <<>> ELSE <<<<PyInt(key), v>>>>
GpsInfos ==
  {PyDict(Entry(1, lat_ref) \o Entry(2, lat) \o Entry(3, lon_ref) \o Entry(4, lon)) :
     lat_ref \in LatRefOpts, lat \in LatOpts, lon_ref \in LonRefOpts, lon \in LonOpts}
\* A GPSInfo tag that holds no mapping (an IFD offset, junk).
GpsJunk == {PyInt(0), PyInt(42), PyStrV(<<>>), PyStrV(<<"N">>), None,
            PyList(<<PyInt(1)>>), Rational(1, 2)}

\* Texts around the display limit.
TextLens == {0, 1, TruncLimit + 50} \cup ((TruncLimit - 1)..(TruncLimit + MaxOver))
Text(n) == PyStrV([i \in 1..n |-> Digits[(i % 10) + 1]])
ByteText(n) == PyBytes([i \in 1..n |-> IF i = 1 THEN 255 ELSE 83])
Ones(n) == PyList([i \in 1..n |-> PyInt(1)])
LongValues ==
  {Text(n) : n \in TextLens} \cup {ByteText(n) : n \in TextLens}
    \cup {Ones(n \div 3) : n \in TextLens}

ExifOf(tag_id, v) == PyDict(<<<<PyInt(tag_id), v>>>>)
Scenario ==
  PyDict(<<<<PyInt(36867), PyStrV(<<"2", "0", "2", "0">>)>>,
           <<PyInt(272), PyStrV(<<"X">>)>>,
           <<PyInt(34853),
             PyDict(Entry(2, Tuple3(PyInt(10), PyInt(30), PyInt(0)))
                      \o Entry(1, PyStrV(<<"N">>))
                      \o Entry(4, Tuple3(PyInt(20), PyInt(15), PyInt(0)))
                      \o Entry(3, PyStrV(<<"W">>)))>>>>)
Exifs ==
  {None, Raise("SyntaxError"), PyDict(<<>>), Scenario}
    \cup {ExifOf(34853, g) : g \in GpsInfos \cup GpsJunk \cup {PyDict(<<>>)}}
    \cup {ExifOf(34853, ExifOf(99, v)) : v \in Values}
    \cup {ExifOf(270, v) : v \in LongValues \cup Atoms}
    \cup {ExifOf(99999, v) : v \in Nested(1)}
Images == {Image(FALSE, None)} \cup {Image(TRUE, e) : e \in Exifs}

\* What one request may carry, handled on its own.
Uploads ==
  {Upload(TRUE, Name_a_jpg, i) : i \in Images}
    \cup {Upload(TRUE, f, Image(TRUE, None)) : f \in Filenames}
    \cup {NoUpload}
\* What concurrent requests may carry.
ConcUploads ==
  {Upload(TRUE, Name_a_jpg, Image(TRUE, ExifOf(272, PyStrV(<<"X">>)))),
   Upload(TRUE, Name_up_a_jpg, Image(TRUE, None)),
   Upload(TRUE, Name_a_jpg, Image(FALSE, None)),
   Upload(TRUE, Name_a_txt, Image(TRUE, None))}

\* ---------------------------------------------------------------- analyze
Init ==
  /\ pc = [r \in Requests |-> "idle"]
  /\ req = [r \in Requests |-> NoUpload]
  /\ save_path = [r \in Requests |-> <<>>]
  /\ img = [r \in Requests |-> NoImage]
  /\ resp = [r \in Requests |-> NoResponse]
  /\ fs = [p \in Paths |-> NoFile]

\* Lines 239-261: validation, then file.save(save_path).
Start(r, u) ==
  /\ pc[r] = "idle"
  /\ req' = [req EXCEPT ![r] = u]
  /\ IF ~u.has_image \/ u.filename = <<>> \/ ~allowed_file(u.filename)
     THEN /\ resp' = [resp EXCEPT ![r] =
                Failure(400, IF ~u.has_image THEN "No file part 'image' in request"
                             ELSE IF u.filename = <<>> THEN "No file selected"
                             ELSE "File type not allowed")]
          /\ pc' = [pc EXCEPT ![r] = "done"]
          /\ UNCHANGED <<save_path, fs>>
     ELSE /\ save_path' = [save_path EXCEPT ![r] = SavePath(u.filename)]
          /\ fs' = [fs EXCEPT ![SavePath(u.filename)] = File(r, u.content)]
          /\ pc' = [pc EXCEPT ![r] = "saved"]
          /\ UNCHANGED resp
  /\ UNCHANGED img

\* Line 264: Image.open(save_path); a missing or undecodable file raises.
Open(r) ==
  /\ pc[r] = "saved"
  /\ LET f == fs[save_path[r]]
     IN  IF f.by = 0 \/ ~f.image.decodable
         THEN /\ resp' = [resp EXCEPT ![r] =
                    Failure(500, IF f.by = 0 THEN "FileNotFoundError"
                                 ELSE "UnidentifiedImageError")]
              /\ pc' = [pc EXCEPT ![r] = "finally"]
              /\ UNCHANGED img
         ELSE /\ img' = [img EXCEPT ![r] = f.image]
              /\ pc' = [pc EXCEPT ![r] = "opened"]
              /\ UNCHANGED resp
  /\ UNCHANGED <<req, save_path, fs>>

\* Lines 265-351: get_basic_info (os.path.getsize raises on a missing
\* file), then the report; any raise is the 500 response.
Analyze(r) ==
  /\ pc[r] = "opened"
  /\ \E exif_data \in {get_exif_data(img[r])} :
     \E gps \in {IF exif_data = <<>> THEN None ELSE get_gps_info(exif_data)} :
     \E exif_list \in {IF exif_data = <<>> THEN PyList(<<>>)
                       ELSE ExifList(exif_data)} :
       resp' = [resp EXCEPT ![r] =
         IF fs[save_path[r]].by = 0 THEN Failure(500, "FileNotFoundError")
         ELSE Report([file_name |-> Basename(save_path[r])],
                     exif_data, gps, exif_list)]
  /\ pc' = [pc EXCEPT ![r] = "finally"]
  /\ UNCHANGED <<req, save_path, img, fs>>

\* Line 355: if os.path.exists(save_path)
CleanupCheck(r) ==
  /\ pc[r] = "finally"
  /\ pc' = [pc EXCEPT ![r] =
       IF fs[save_path[r]].by # 0 THEN "remove" ELSE "done"]
  /\ UNCHANGED <<req, save_path, img, resp, fs>>

\* CleanupRemove that removes nothing.
CleanupRemove_Skipped(r) ==
  /\ pc[r] = "remove"
  /\ pc' = [pc EXCEPT ![r] = "done"]
  /\ UNCHANGED <<req, save_path, img, resp, fs>>

\* Line 356: os.remove(save_path); its FileNotFoundError is passed over.
CleanupRemove(r) ==
  /\ pc[r] = "remove"
  /\ fs' = [fs EXCEPT ![save_path[r]] = NoFile]
  /\ pc' = [pc EXCEPT ![r] = "done"]
  /\ UNCHANGED <<req, save_path, img, resp>>

\* What a handler does once the upload is saved.
Handler(r) == Open(r) \/ Analyze(r) \/ CleanupCheck(r) \/ CleanupRemove(r)

\* One request at a time.
Next ==
  \/ \E u \in Uploads : Start(1, u)
  \/ Handler(1)
Spec == Init /\ [][Next]_vars

\* The threaded server: the handlers interleave at their file operations and
\* each one, once started, runs on.
ConcNext ==
  \E r \in Requests :
    \/ \E u \in ConcUploads : Start(r, u)
    \/ Handler(r)
ConcSpec ==
  Init /\ [][ConcNext]_vars /\ \A r \in Requests : WF_vars(Handler(r))

\* ============================================================= the claims
\* The request has been through the "with" block on an image PIL opened.
Analysed(r) == pc[r] \in {"finally", "remove", "done"} /\ img[r].decodable
\* The raw EXIF mapping of the image the request opened holds tag `id`.
HasRawTag(r, id) ==
  img[r].exif.kind = "dict" /\ DictHas(img[r].exif.pairs, PyInt(id))
RawTag(r, id) == DictGet(img[r].exif.pairs, PyInt(id))
\* The raw GPSInfo (tag 34853) is a mapping with sub-tags.
HasSubTags(r) ==
  /\ HasRawTag(r, 34853)
  /\ RawTag(r, 34853).kind = "dict"
  /\ RawTag(r, 34853).pairs # <<>>
SubTags(r) == RawTag(r, 34853).pairs
HasSub(r, id) == DictHas(SubTags(r), PyInt(id))
Sub(r, id) == DictGet(SubTags(r), PyInt(id))

\* A SanitizedValue: null, boolean, integer, float, text, a list of them, a
\* mapping of text to them.
RECURSIVE JsonSafe(_)
JsonSafe(x) ==
  \/ x.kind \in {"none", "bool", "int", "float", "str"}
  \/ /\ x.kind = "list"
     /\ \A i \in 1..Len(x.items) : JsonSafe(x.items[i])
  \/ /\ x.kind = "dict"
     /\ \A i \in 1..Len(x.pairs) :
          x.pairs[i][1].kind = "str" /\ JsonSafe(x.pairs[i][2])

RECURSIVE NumVal(_)
NumVal(x) ==
  CASE x.kind = "int" -> PyFloatV(x.iv, 1)
    [] x.kind = "float" -> x
    [] x.kind = "str" -> PyFloatV(DigitsVal(x.sv, 0), 1)
    [] x.kind = "obj" ->
         IF ~IsRaise(x.fl) THEN x.fl
         ELSE IF x.numerator.kind = "int"
         THEN PyFloatV(x.numerator.iv, x.denominator.iv)
         ELSE PyFloatV(x.num.iv, x.den.iv)
    [] x.kind \in {"list", "tuple"} ->
         PyFloatV(NumVal(x.items[1]).num * NumVal(x.items[2]).den,
                  NumVal(x.items[1]).den * NumVal(x.items[2]).num)
Degrees(t) ==
  LET d == NumVal(t.items[1])
      m == NumVal(t.items[2])
      s == NumVal(t.items[3])
  IN  PyFloatV(d.num * m.den * s.den * 3600 + m.num * d.den * s.den * 60
                 + s.num * d.den * m.den,
               d.den * m.den * s.den * 3600)
\* The reference as text: absent (None) is no text.
RefText(ref) ==
  CASE ref.kind = "none" -> <<>>
    [] ref.kind = "str" -> ref.sv
    [] ref.kind = "bytes" -> Decode(ref.bs)
    [] OTHER -> PyStr(ref).sv
RefNegates(ref, letter) ==
  RefText(ref) # <<>> /\ UpperChar(RefText(ref)[1]) = letter
ClaimedCoordinate(t, ref, letter) ==
  IF RefNegates(ref, letter)
  THEN PyFloatV(-Degrees(t).num, Degrees(t).den)
  ELSE Degrees(t)
\* A 3-element sequence whose elements all convert.
ConvertibleTriple(t) ==
  /\ t.kind \in {"list", "tuple"}
  /\ Len(t.items) = 3
  /\ \A i \in 1..3 : ~IsRaise(_to_float_rational(t.items[i]))

C3_GpsNeverFails ==
  \A r \in Requests :
    (Analysed(r) /\ HasRawTag(r, 34853)) => resp[r].success

\* C4: in every successful report, has_gps is true if and only if gps is
\* non-null and both its latitude and its longitude are non-null.
C4_HasGps ==
  \A r \in Requests :
    resp[r].success =>
      (resp[r].privacy_flags.has_gps <=>
         (/\ resp[r].gps.kind # "none"
          /\ resp[r].gps.latitude.kind # "none"
          /\ resp[r].gps.longitude.kind # "none"))
\* A GPS block whose latitude resolved and whose longitude did not.
C4_Witness ==
  \E r \in Requests :
    /\ resp[r].success
    /\ resp[r].gps.kind # "none"
    /\ resp[r].gps.latitude.kind # "none"
    /\ resp[r].gps.longitude.kind = "none"
    /\ ~resp[r].privacy_flags.has_gps

\* Python's falsy values: None, False, zero, empty text / bytes / sequence /
\* mapping.
IsFalsy(x) ==
  \/ x.kind = "none"
  \/ x.kind = "bool" /\ ~x.bv
  \/ x.kind = "int" /\ x.iv = 0
  \/ x.kind = "float" /\ x.num = 0
  \/ x.kind = "str" /\ x.sv = <<>>
  \/ x.kind = "bytes" /\ x.bs = <<>>
  \/ x.kind \in {"list", "tuple"} /\ x.items = <<>>
  \/ x.kind = "dict" /\ x.pairs = <<>>

\* C5 as stated: the report's gps is non-null whenever a GPSInfo tag is
\* present, whatever its content, and null exactly when there is none.
C5_GpsIffTag ==
  \A r \in Requests :
    resp[r].success => (resp[r].gps.kind # "none" <=> HasRawTag(r, 34853))
\* C5 as amended: in every successful report gps is null exactly when the
\* image has no GPSInfo tag or the tag's value is falsy (a mapping with no
\* sub-tags, 0, empty text); otherwise it is a GpsReport with raw, latitude
\* and longitude.
C5_GpsIffTruthyTag ==
  \A r \in Requests :
    resp[r].success =>
      /\ resp[r].gps.kind = "none" <=>
           (~HasRawTag(r, 34853) \/ IsFalsy(RawTag(r, 34853)))
      /\ resp[r].gps.kind # "none" =>
           DOMAIN resp[r].gps = {"kind", "raw", "latitude", "longitude"}
\* A GPSInfo mapping with no sub-tags, reported with gps null.
C5_Witness ==
  \E r \in Requests :
    /\ resp[r].success
    /\ HasRawTag(r, 34853)
    /\ RawTag(r, 34853) = PyDict(<<>>)
    /\ resp[r].gps.kind = "none"

\* The value string of the i-th raw tag, before it is cut.
ValueString(r, i) == PyStr(DisplayValue(img[r].exif.pairs[i][2])).sv
\* The 200-character rule.
Cut(s) == IF Len(s) > 200 THEN SubSeq(s, 1, 200) \o TruncSuffix ELSE s

\* C6: a value string longer than 200 characters is shown as its first 200
\* characters followed by "... (truncated)", one of 200 characters or fewer
\* is shown unchanged; the display value never exceeds 200 characters plus
\* that suffix.
C6_Truncation ==
  \A r \in Requests :
    (resp[r].success /\ resp[r].exif # <<>>) =>
      \A i \in 1..Len(resp[r].exif) :
        LET s == ValueString(r, i)
            shown == resp[r].exif[i].value
        IN  /\ Len(s) <= 200 => shown = s
            /\ Len(s) > 200 =>
                 /\ SubSeq(shown, 1, 200) = SubSeq(s, 1, 200)
                 /\ SubSeq(shown, 201, Len(shown)) = TruncSuffix
            /\ Len(shown) <= 200 + Len(TruncSuffix)
\* A text of 201 characters, cut.
C6_Witness ==
  \E r \in Requests :
    /\ resp[r].success /\ resp[r].exif # <<>>
    /\ img[r].exif.pairs[1][2] = Text(201)
    /\ Len(resp[r].exif[1].value) = 200 + Len(TruncSuffix)

\* A value float() refuses that carries an integer numerator and a non-zero
\* integer denominator, and the quotient the claim gives for it.
IsDuckRational(x) ==
  /\ x.kind = "obj"
  /\ IsRaise(x.fl)
  /\ x.numerator.kind = "int"
  /\ x.denominator.kind = "int"
  /\ x.denominator.iv # 0
QuotientValue(n, d) == IF n % d = 0 THEN PyInt(n \div d) ELSE PyFloatV(n, d)

\* C7: a value float() refuses that has a numerator and a non-zero
\* denominator is sanitized to numerator / denominator, an integer when the
\* quotient is whole and a float otherwise, for every numerator, 0 included.
C7_RationalQuotient ==
  \A r \in Requests :
    (Analysed(r) /\ HasSubTags(r) /\ resp[r].success) =>
      \A i \in 1..Len(SubTags(r)) :
        IsDuckRational(SubTags(r)[i][2]) =>
          resp[r].gps.raw.pairs[i][2] =
            QuotientValue(SubTags(r)[i][2].numerator.iv,
                          SubTags(r)[i][2].denominator.iv)

\* C8 as stated: every entry's display value is the string of the sanitized
\* raw value, under the 200-character rule.
C8_DisplayIsSanitized ==
  \A r \in Requests :
    (resp[r].success /\ resp[r].exif # <<>>) =>
      \A i \in 1..Len(resp[r].exif) :
        resp[r].exif[i].value =
          Cut(PyStr(sanitize_for_json(img[r].exif.pairs[i][2])).sv)
\* C8 as amended: that holds for null, boolean, integer, float, text, bytes
\* and sequence values; a mapping or any other object is shown as str() of
\* the raw value itself ("<unserializable>" when str() raises), under the
\* 200-character rule.
C8_DisplayByKind ==
  \A r \in Requests :
    (resp[r].success /\ resp[r].exif # <<>>) =>
      \A i \in 1..Len(resp[r].exif) :
        LET raw == img[r].exif.pairs[i][2]
        IN  resp[r].exif[i].value =
              IF raw.kind \in {"dict", "obj"}
              THEN IF IsRaise(PyStr(raw)) THEN Unserializable
                   ELSE Cut(PyStr(raw).sv)
              ELSE Cut(PyStr(sanitize_for_json(raw)).sv)
\* A GPSInfo mapping holding bytes, shown unsanitized, beside a sequence
\* case: the mapping's display differs from its sanitized form.
C8_Witness ==
  \E r \in Requests :
    /\ resp[r].success /\ resp[r].exif # <<>>
    /\ img[r].exif.pairs[1][2].kind = "dict"
    /\ HasSubTags(r) /\ Sub(r, 1) = PyBytes(<<83>>)
    /\ resp[r].exif[1].value = Cut(PyStr(img[r].exif.pairs[1][2]).sv)
    /\ resp[r].exif[1].value
         # Cut(PyStr(sanitize_for_json(img[r].exif.pairs[1][2])).sv)

\* The request is complete and the file it saved is no longer there.
Deleted(r) ==
  pc[r] = "done" /\ save_path[r] # <<>> /\ fs[save_path[r]].by # r

\* C9: every request that saved its upload goes on to complete with the
\* file it saved deleted, whatever the outcome, and a request rejected by
\* validation never creates a file.
C9_TempFileDeleted ==
  /\ \A r \in Requests : [](pc[r] = "saved" => <>Deleted(r))
  /\ [](\A r \in Requests :
          (pc[r] = "done" /\ resp[r].status = 400) =>
            \A p \in Paths : fs[p].by # r)
\* A processing failure, answered with success=false, file gone.
C9_Witness ==
  \E r \in Requests :
    /\ pc[r] = "done"
    /\ resp[r].status = 500
    /\ fs[save_path[r]] = NoFile

\* C10: between a request's save and its cleanup the file at its save path
\* is the one it saved, and the image it opened is its own upload.
C10_OwnFile ==
  \A r \in Requests :
    /\ pc[r] \in {"saved", "opened"} => fs[save_path[r]].by = r
    /\ pc[r] = "opened" => img[r] = req[r].content

=============================================================================
